---- MODULE Spec2Model ----
(***************************************************************************)
(* Model of the artwork-creation pipeline of arts-market-api:              *)
(* modules/artwork-management/handlers/artworks/create_art_handler.go.     *)
(* One behaviour is one run of the handler returned by                     *)
(* CreateArtworkHandler: validation, the transaction, the root insert, the *)
(* fan-out of the five sub-resource goroutines, the image upload pool and  *)
(* the coordinator's range over errChan.                                   *)
(* TwoCallsSpec lets the same request be served again after a success.     *)
(***************************************************************************)
EXTENDS Integers, Sequences, FiniteSets, TLC

\* ---------------------------------------------------------------- bounds
MaxIds == 2
MaxImages == 4
MaxKinds == 2
MaxCPU == 5
MaxFaults == 1
MaxCalls == 2
MaxIndex == 3

\* ------------------------------------------------------ program constants
PoolLimit == 4
MaxImageMB == 5

\* ------------------------------------------------------------ input sets
\* An error value: the status code of a fiber error (0 for a plain error), the
\* message format and the string formatted into it.
NoErr == [code |-> 0, msg |-> "nil", arg |-> ""]
NewError(code, e) == [code |-> code, msg |-> e.msg, arg |-> e.arg]
Errorf(msg, arg) == [code |-> 0, msg |-> msg, arg |-> arg]
Text(msg) == [msg |-> msg, arg |-> ""]
ErrTxDone == Errorf("sql: transaction has already been committed or rolled back", "")
ErrDB == Errorf("database error", "")
NoResp == [status |-> 0, success |-> FALSE, error |-> Text("none")]
CALLER == "me"
UNITS == {"editions", "tags", "categories", "attributes", "images"}

\* Mutant of ErrChanCap: errChan has room for all goroutines but one.
ErrChanCapShort == Cardinality(UNITS) - 1

\* errChan := make(chan error, 5)
ErrChanCap == 5

IdStrings == {"u1", "not-a-uuid"}
MoreIdStrings == {"u1", "u2", "not-a-uuid"}
ValidUUIDs == {"u1", "u2", "c1", "c2", "m1"}
Collections == {[id |-> "c1", user_id |-> "me"], [id |-> "c2", user_id |-> "other"]}
AttributeInputs == {[ID |-> s, Value |-> "red"] : s \in IdStrings}
MoreAttributeInputs == {[ID |-> s, Value |-> v] : s \in MoreIdStrings, v \in {"red", ""}}
FileHeaders == {[Size |-> 1, ContentType |-> "image/png"],
                [Size |-> 0, ContentType |-> "image/png"],
                [Size |-> 6, ContentType |-> "image/png"],
                [Size |-> 1, ContentType |-> "text/plain"]}
MixedFiles == {[Size |-> 1, ContentType |-> "image/png"],
               [Size |-> 1, ContentType |-> "text/plain"]}
ImageContentTypes == {"image/png"}
ValidDates == {"2024-05-01"}

SeqsUpTo(S, n) == UNION {[1..k -> S] : k \in 0..n}
AtMostOne(S) == {<<>>} \cup {<<x>> : x \in S}

\* The request after parseFormData, as the handler reads it.
FrontFields == [Title : {"", "Sunset"}, Type : {"", "digital"},
                CreationDate : {"", "2024-05-01", "01/05/2024"},
                CollectionID : {"", "c1", "c2", "not-a-uuid"},
                MediumID : {"", "m1", "not-a-uuid"}]
PlainFront == [Title |-> "Sunset", Type |-> "digital", CreationDate |-> "",
               CollectionID |-> "c1", MediumID |-> ""]
EditionPairs == {<<0, 0>>, <<1, 2>>}
BackFields == [Tags : AtMostOne(IdStrings),
               Categories : AtMostOne(IdStrings),
               Attributes : AtMostOne(AttributeInputs),
               Edition : EditionPairs,
               Images : AtMostOne(MixedFiles)]
PlainBack == [Tags |-> <<>>, Categories |-> <<>>, Attributes |-> <<>>,
              Edition |-> <<0, 0>>, Images |-> <<>>]
\* The enumerated requests: every variant of the fields read before the fan-out
\* with no optional collection; every optional collection alone, with lists up to
\* the bounds (the image lists of up to MaxKinds files draw on every kind of
\* file, the longer ones on a valid and an invalid kind); and every combination of the five optional collections, each
\* absent or holding one element, behind a plain valid front.
Requests == {[front |-> f, back |-> PlainBack] : f \in FrontFields}
            \cup {[front |-> PlainFront, back |-> [PlainBack EXCEPT !.Edition = e]] :
                     e \in {-1, 0, 1} \X {-1, 0, 2}}
            \cup {[front |-> PlainFront, back |-> [PlainBack EXCEPT !.Images = i]] :
                     i \in SeqsUpTo(FileHeaders, MaxKinds)
                           \cup SeqsUpTo(MixedFiles, MaxImages)}
            \cup {[front |-> PlainFront, back |-> [PlainBack EXCEPT !.Tags = t]] :
                     t \in SeqsUpTo(MoreIdStrings, MaxIds)}
            \cup {[front |-> PlainFront, back |-> [PlainBack EXCEPT !.Categories = t]] :
                     t \in SeqsUpTo(MoreIdStrings, MaxIds)}
            \cup {[front |-> PlainFront, back |-> [PlainBack EXCEPT !.Attributes = t]] :
                     t \in SeqsUpTo(MoreAttributeInputs, MaxIds)}
            \cup {[front |-> PlainFront, back |-> b] : b \in BackFields}

\* ------------------------------------------------------------ pure helpers
\* uuid.Parse: a well-formed string gives the identifier, anything else an error.
uuidParse(s) == IF s \in ValidUUIDs THEN [ok |-> TRUE, id |-> <<"uuid", s>>]
                ELSE [ok |-> FALSE, id |-> <<"uuid", "nil">>]

timeParse(s) == s \in ValidDates

HasPrefixImage(ct) == ct \in ImageContentTypes

Min(a, b) == IF a < b THEN a ELSE b

EmptyRows == [artworks |-> <<>>, editions |-> <<>>, tags |-> <<>>,
              categories |-> <<>>, attributes |-> <<>>, images |-> <<>>]

\* One key of form.Value: whether the map holds the key, and its values.
NoKey == [ok |-> FALSE, vals |-> <<>>]
IdKeys == {NoKey, [ok |-> TRUE, vals |-> <<>>], [ok |-> TRUE, vals |-> <<"u1">>],
           [ok |-> TRUE, vals |-> <<"u2", "u1">>]}
ValueKeys == {NoKey, [ok |-> TRUE, vals |-> <<>>], [ok |-> TRUE, vals |-> <<"red">>]}

\* The attribute fields of a multipart form: position i + 1 holds the keys
\* attributes[i][id] and attributes[i][value].
Forms == [1..MaxIndex -> [id : IdKeys, value : ValueKeys]]

\* The form in which a list of attributes is submitted.
FormOf(attrs) ==
    [i \in 1..Len(attrs) |-> [id |-> [ok |-> TRUE, vals |-> <<attrs[i].ID>>],
                              value |-> [ok |-> TRUE, vals |-> <<attrs[i].Value>>]]]

\* form.Value[idKey] and form.Value[valueKey] for index i.
FormAt(f, i) ==
    IF i + 1 \in DOMAIN f THEN f[i + 1] ELSE [id |-> NoKey, value |-> NoKey]

\* Mutant of parseAttributes: an index without an id is skipped and the scan
\* goes on to the end of the form.
RECURSIVE parseAttributesSkipGaps(_, _, _)
parseAttributesSkipGaps(f, i, acc) ==
    LET ids == FormAt(f, i).id
        values == FormAt(f, i).value
    IN IF i >= Len(f) THEN acc
       ELSE IF ~ids.ok \/ Len(ids.vals) = 0 THEN parseAttributesSkipGaps(f, i + 1, acc)
       ELSE parseAttributesSkipGaps(f, i + 1,
                Append(acc, [ID |-> ids.vals[1],
                             Value |-> IF values.ok /\ Len(values.vals) > 0
                                       THEN values.vals[1] ELSE ""]))

\* The loop of parseFormData over attributes[i][id] / attributes[i][value],
\* i = 0, 1, ...: it ends at the first index without an id.
RECURSIVE parseAttributes(_, _, _)
parseAttributes(f, i, acc) ==
    LET ids == FormAt(f, i).id
        values == FormAt(f, i).value
    IN IF ~ids.ok \/ Len(ids.vals) = 0 THEN acc
       ELSE parseAttributes(f, i + 1,
                Append(acc, [ID |-> ids.vals[1],
                             Value |-> IF values.ok /\ Len(values.vals) > 0
                                       THEN values.vals[1] ELSE ""]))

VARIABLES
    form,       \* the attribute fields of the multipart form
    req,        \* the CreateArtworkRequest and the submitted image files
    numCPU,     \* runtime.NumCPU() as uploadImagesConcurrently read it (0 before)
    pc,         \* position of the handler goroutine
    resp,       \* the response the handler sent ("none" before)
    tx,         \* the transaction handle: status and the rows written in it
    db,         \* committed rows
    artworkID,  \* artwork.ID after createArtwork
    upc,        \* position of each fan-out goroutine
    uerr,       \* err of each fan-out goroutine
    issued,     \* rows each goroutine passed to tx.Create (history)
    faults,     \* failures of the database or the blob store injected so far
    errChan,    \* buffered channel of the fan-out errors
    errClosed,  \* number of times errChan was closed
    closer,     \* position of the goroutine that waits for wg and closes errChan
    pool,       \* state of uploadImagesConcurrently
    blobs,      \* blob storage: blobs[url] is the index of the uploaded file
    calls,      \* counts of Begin / Commit / Rollback calls and who made them
    crashed     \* the process died of an unrecovered panic

vars == <<form, req, numCPU, pc, resp, tx, db, artworkID, upc, uerr, issued, faults,
          errChan, errClosed, closer, pool, blobs, calls, crashed>>

PoolOff == [phase |-> "off", numWorkers |-> 0, jobs |-> <<>>,
            jobsClosed |-> FALSE, results |-> <<>>, resultsClosed |-> 0,
            wk |-> <<>>, urls |-> <<>>, err |-> NoErr]

NoCalls == [begin |-> 0, commit |-> 0, rollback |-> 0]

Init ==
    /\ req \in Requests
    /\ form = FormOf(req.back.Attributes)
    /\ numCPU = 0
    /\ pc = "validate"
    /\ resp = NoResp
    /\ tx = [status |-> "none", rows |-> EmptyRows]
    /\ db = EmptyRows
    /\ artworkID = <<"uuid", "nil">>
    /\ upc = [u \in UNITS |-> "off"]
    /\ uerr = [u \in UNITS |-> NoErr]
    /\ issued = [u \in UNITS |-> <<>>]
    /\ faults = 0
    /\ errChan = <<>>
    /\ errClosed = 0
    /\ closer = "off"
    /\ pool = PoolOff
    /\ blobs = <<>>
    /\ calls = NoCalls
    /\ crashed = FALSE

\* ------------------------------------------------------- response sink
\* HandleResponse answers every error with StatusInternalServerError.
HandleResponse(err) ==
    IF err # NoErr THEN [status |-> 500, success |-> FALSE, error |-> [msg |-> err.msg, arg |-> err.arg]]
    ELSE [status |-> 200, success |-> TRUE, error |-> Text("")]

\* An error returned by the handler itself goes to the framework's error handler.
ReturnError(err) ==
    [status |-> IF err.code # 0 THEN err.code ELSE 500, success |-> FALSE,
     error |-> [msg |-> err.msg, arg |-> err.arg]]

\* The handler returned nil without writing a response (after a recovered panic).
EmptyResponse == [status |-> 200, success |-> FALSE, error |-> Text("")]

\* ------------------------------------------------------- the transaction
\* tx.Rollback(): discards the rows written in the transaction; on a handle that
\* is already finished it changes nothing.
\* Mutant of Rollback: the call leaves the transaction as it is.
RollbackNoop(t) == t

Rollback(t) ==
    IF t.status = "open" THEN [status |-> "rolledback", rows |-> EmptyRows] ELSE t

\* An unrecovered panic in any goroutine ends the process: what was in memory is
\* gone, the connection is dropped with the transaction neither committed nor
\* rolled back by the handler; committed rows and blobs stay.
Crash ==
    /\ crashed' = TRUE
    /\ pc' = "crashed"
    /\ upc' = [u \in UNITS |-> "off"]
    /\ uerr' = [u \in UNITS |-> NoErr]
    /\ errChan' = <<>>
    /\ closer' = "off"
    /\ pool' = PoolOff
    /\ tx' = IF tx.status = "open" THEN [status |-> "lost", rows |-> EmptyRows] ELSE tx
    /\ numCPU' = 0
    /\ UNCHANGED <<form, req, resp, db, artworkID, issued, faults, errClosed, blobs,
                   calls>>

\* ------------------------------------------------------- validation
\* Mutant of validateArtworkRequest: the creation date is not looked at.
validateArtworkRequestNoDate(r) ==
    IF r.Title = "" THEN Errorf("title is required", "")
    ELSE IF r.Type = "" THEN Errorf("type is required", "")
    ELSE NoErr

validateArtworkRequest(r) ==
    IF r.Title = "" THEN Errorf("title is required", "")
    ELSE IF r.Type = "" THEN Errorf("type is required", "")
    ELSE IF r.CreationDate # "" /\ ~timeParse(r.CreationDate)
         THEN Errorf("invalid creation date format, use YYYY-MM-DD", "")
    ELSE NoErr

Validate ==
    /\ pc = "validate"
    /\ LET err == validateArtworkRequest(req.front) IN
         IF err # NoErr
         THEN /\ resp' = HandleResponse(NewError(400, err))
              /\ pc' = "done"
         ELSE /\ resp' = resp
              /\ pc' = "begin"
    /\ UNCHANGED <<form, req, numCPU, tx, db, artworkID, upc, uerr, issued, faults,
                   errChan, errClosed, closer, pool, blobs, calls, crashed>>

\* tx := db.Begin()
Begin ==
    /\ pc = "begin"
    /\ \E ok \in BOOLEAN :
         IF ok
         THEN /\ tx' = [status |-> "open", rows |-> EmptyRows]
              /\ calls' = [calls EXCEPT !.begin = @ + 1]
              /\ resp' = resp
              /\ pc' = "count"
         ELSE /\ resp' = HandleResponse(NewError(500, Text("Failed to start transaction")))
              /\ pc' = "done"
              /\ UNCHANGED <<tx, calls>>
    /\ UNCHANGED <<form, req, numCPU, db, artworkID, upc, uerr, issued, faults,
                   errChan, errClosed, closer, pool, blobs, crashed>>

\* The count of the caller's existing artworks.
CountExisting ==
    /\ pc = "count"
    /\ \E ok \in BOOLEAN :
         IF ok
         THEN /\ pc' = "create"
              /\ UNCHANGED <<tx, calls, resp>>
         ELSE /\ tx' = Rollback(tx)
              /\ calls' = [calls EXCEPT !.rollback = @ + 1]
              /\ resp' = HandleResponse(NewError(500, Text("Failed to check existing artworks")))
              /\ pc' = "done"
    /\ UNCHANGED <<form, req, numCPU, db, artworkID, upc, uerr, issued, faults,
                   errChan, errClosed, closer, pool, blobs, crashed>>

\* ------------------------------------------------------- the root row
\* Mutant of parseCollectionID: the query counts the collections with the given
\* id, whoever owns them.
parseCollectionIDAnyOwner(collectionIDStr, userID, queryOk) ==
    IF collectionIDStr = "" THEN [id |-> <<"uuid", "nil">>, err |-> NoErr]
    ELSE LET p == uuidParse(collectionIDStr) IN
         IF ~p.ok THEN [id |-> p.id, err |-> NewError(400, Text("Invalid collection ID format"))]
         ELSE IF ~queryOk
              THEN [id |-> p.id, err |-> NewError(500, Text("Failed to verify collection"))]
         ELSE IF Cardinality({c \in Collections : <<"uuid", c.id>> = p.id}) = 0
              THEN [id |-> p.id, err |-> NewError(403, Text("Collection does not belong to you"))]
         ELSE [id |-> p.id, err |-> NoErr]

parseCollectionID(collectionIDStr, userID, queryOk) ==
    IF collectionIDStr = "" THEN [id |-> <<"uuid", "nil">>, err |-> NoErr]
    ELSE LET p == uuidParse(collectionIDStr) IN
         IF ~p.ok THEN [id |-> p.id, err |-> NewError(400, Text("Invalid collection ID format"))]
         ELSE IF ~queryOk
              THEN [id |-> p.id, err |-> NewError(500, Text("Failed to verify collection"))]
         ELSE IF Cardinality({c \in Collections :
                                <<"uuid", c.id>> = p.id /\ c.user_id = userID}) = 0
              THEN [id |-> p.id, err |-> NewError(403, Text("Collection does not belong to you"))]
         ELSE [id |-> p.id, err |-> NoErr]

parseUUIDPointer(s) ==
    IF s = "" THEN <<"uuid", "nil">>
    ELSE LET p == uuidParse(s) IN IF ~p.ok THEN <<"uuid", "nil">> ELSE p.id

\* Mutant of BeforeCreate: the identifier is the same for every row.
BeforeCreateSameID(a) ==
    [a EXCEPT !.ID = IF @ = <<"uuid", "nil">> THEN <<"uuid", "a", 1>> ELSE @,
              !.Status = IF @ = "" THEN "pending" ELSE @]

\* The Artwork hook run by the insert: a fresh identifier and the default status.
BeforeCreate(a) ==
    [a EXCEPT !.ID = IF @ = <<"uuid", "nil">>
                     THEN <<"uuid", "a", Len(db.artworks) + 1>> ELSE @,
              !.Status = IF @ = "" THEN "pending" ELSE @]

NewArtwork(r, userID, collectionID) ==
    [ID |-> <<"uuid", "nil">>, UserID |-> userID, Title |-> r.Title,
     Type |-> r.Type, CollectionID |-> collectionID,
     CreationDate |-> r.CreationDate, MediumID |-> parseUUIDPointer(r.MediumID),
     Status |-> ""]

\* The artworks table as AutoMigrate builds it from the Artwork struct:
\* collection_id is declared "not null", so the insert of a row without a
\* collection is refused by the database.
NotNullViolation(row) == row.CollectionID = <<"uuid", "nil">>

createArtwork ==
    /\ pc = "create"
    /\ \E queryOk \in BOOLEAN, o \in {"ok", "err", "panic"} :
         LET col == parseCollectionID(req.front.CollectionID, CALLER, queryOk)
             row == BeforeCreate(NewArtwork(req.front, CALLER, col.id))
             err == IF col.err # NoErr THEN col.err
                    ELSE IF req.front.CreationDate # "" /\ ~timeParse(req.front.CreationDate)
                         THEN NewError(400, Text("Invalid creation date format"))
                    ELSE IF o = "err" \/ NotNullViolation(row)
                         THEN NewError(500, Text("Failed to create artwork"))
                    ELSE NoErr
             reached == col.err = NoErr /\ err.msg = "Failed to create artwork"
         IN
         \* the early returns come before tx.Create: its outcome is read only if reached
         /\ (col.err # NoErr => o = "ok")
         /\ (req.front.CollectionID = "" \/ ~uuidParse(req.front.CollectionID).ok => queryOk)
         /\ (NotNullViolation(row) => o = "ok")
         /\ faults' = IF reached /\ o = "err" THEN faults + 1 ELSE faults
         /\ IF err # NoErr
            THEN \* if err != nil { tx.Rollback(); return err }
                 /\ tx' = Rollback(tx)
                 /\ calls' = [calls EXCEPT !.rollback = @ + 1]
                 /\ resp' = ReturnError(err)
                 /\ pc' = "done"
                 /\ artworkID' = artworkID
            ELSE IF o = "panic"
            THEN \* the deferred recover of the handler goroutine
                 /\ tx' = Rollback(tx)
                 /\ calls' = [calls EXCEPT !.rollback = @ + 1]
                 /\ resp' = EmptyResponse
                 /\ pc' = "done"
                 /\ artworkID' = artworkID
            ELSE /\ tx' = [tx EXCEPT !.rows.artworks = Append(@, row)]
                 /\ artworkID' = row.ID
                 /\ pc' = "launch"
                 /\ UNCHANGED <<calls, resp>>
    /\ UNCHANGED <<form, req, numCPU, db, upc, uerr, issued, errChan,
                   errClosed, closer, pool, blobs, crashed>>

\* ------------------------------------------------------- fan-out
\* The goroutines the handler launches, one per non-empty optional collection,
\* then the goroutine that waits for the group and closes errChan.
EditionNumber(r) == r.Edition[1]
TotalEditions(r) == r.Edition[2]

\* Mutant of Launched: the editions goroutine is launched when either number is
\* positive.
LaunchedEitherPositive(r) ==
    {u \in UNITS :
        \/ u = "editions" /\ (EditionNumber(r) > 0 \/ TotalEditions(r) > 0)
        \/ u = "tags" /\ Len(r.Tags) > 0
        \/ u = "categories" /\ Len(r.Categories) > 0
        \/ u = "attributes" /\ Len(r.Attributes) > 0
        \/ u = "images" /\ Len(r.Images) > 0}

Launched(r) ==
    {u \in UNITS :
        \/ u = "editions" /\ EditionNumber(r) > 0 /\ TotalEditions(r) > 0
        \/ u = "tags" /\ Len(r.Tags) > 0
        \/ u = "categories" /\ Len(r.Categories) > 0
        \/ u = "attributes" /\ Len(r.Attributes) > 0
        \/ u = "images" /\ Len(r.Images) > 0}

\* The goroutines that have not yet called wg.Done().
Running == {u \in UNITS : upc[u] \notin {"off", "done"}}

FanOut ==
    /\ pc = "launch"
    /\ upc' = [u \in UNITS |-> IF u \in Launched(req.back) THEN "ready" ELSE "off"]
    /\ errChan' = <<>>
    /\ closer' = "waiting"
    /\ pc' = "wait"
    /\ UNCHANGED <<form, req, numCPU, resp, tx, db, artworkID, uerr, issued, faults,
                   errClosed, pool, blobs, calls, crashed>>

\* One more injected failure of the database or the blob store.
Fault == faults < MaxFaults /\ faults' = faults + 1

\* The goroutines whose tx.Create met a finished transaction.
LateUse == {u \in UNITS : uerr[u] = ErrTxDone}

\* What goroutine u leaves behind when its function returned err:
\* if err != nil { errChan <- err }, then the deferred wg.Done().
Report(u, err) ==
    /\ uerr' = [uerr EXCEPT ![u] = err]
    /\ upc' = [upc EXCEPT ![u] = "done"]
    /\ IF err = NoErr THEN errChan' = errChan
       ELSE /\ errClosed = 0            \* a send on a closed channel panics
            /\ Len(errChan) < ErrChanCap
            /\ errChan' = Append(errChan, [unit |-> u, err |-> err])

\* Mutant of TxCreate: the goroutine writes through the database handle instead
\* of the transaction handle, so its rows are stored at once.
TxCreateOutsideTx(u, table, rows, o) ==
    /\ issued' = [issued EXCEPT ![u] = rows]
    /\ tx' = tx
    /\ IF o = "ok"
       THEN /\ faults' = faults
            /\ db' = [db EXCEPT ![table] = @ \o rows]
            /\ Report(u, NoErr)
       ELSE /\ Fault
            /\ db' = db
            /\ Report(u, ErrDB)

\* tx.Create(rows) called by goroutine u, and the goroutine's return. The handle
\* refuses every statement once the transaction is finished; an open one accepts
\* the rows or fails (o).
TxCreate(u, table, rows, o) ==
    /\ issued' = [issued EXCEPT ![u] = rows]
    /\ db' = db
    /\ IF tx.status # "open"
       THEN /\ o = "ok"
            /\ faults' = faults
            /\ tx' = tx
            /\ Report(u, ErrTxDone)
       ELSE IF o = "ok"
       THEN /\ faults' = faults
            /\ tx' = [tx EXCEPT !.rows[table] = @ \o rows]
            /\ Report(u, NoErr)
       ELSE /\ Fault
            /\ tx' = tx
            /\ Report(u, ErrDB)

\* A goroutine's function returned without reaching tx.Create.
ReturnEarly(u, err) ==
    /\ Report(u, err)
    /\ UNCHANGED <<tx, db, issued, faults>>

EditionRows(id, editionNumber, totalEditions) ==
    <<[ArtworkID |-> id, EditionNumber |-> editionNumber,
       TotalEditions |-> totalEditions, Status |-> "available"]>>

processEditions ==
    /\ upc["editions"] = "ready"
    /\ \E o \in {"ok", "err", "panic"} :
         \/ /\ o # "panic"
            /\ TxCreate("editions", "editions",
                        EditionRows(artworkID, EditionNumber(req.back),
                                    TotalEditions(req.back)), o)
            /\ UNCHANGED <<form, req, numCPU, pc, resp, artworkID, errClosed,
                           closer, pool, blobs, calls, crashed>>
         \/ /\ o = "panic"
            /\ tx.status = "open"
            /\ faults < MaxFaults
            /\ Crash

\* Mutant of ParseAll: a string that fails to parse is skipped instead of ending
\* the function.
RECURSIVE ParseAllSkipBad(_, _, _)
ParseAllSkipBad(ids, id, acc) ==
    IF ids = <<>> THEN [ok |-> TRUE, rows |-> acc, bad |-> ""]
    ELSE LET p == uuidParse(Head(ids)) IN
         IF ~p.ok THEN ParseAllSkipBad(Tail(ids), id, acc)
         ELSE ParseAllSkipBad(Tail(ids), id,
                              Append(acc, [ArtworkID |-> id, Ref |-> p.id]))

\* The loop of processTags / processCategories over the identifier strings: the
\* rows built so far, or the first string that fails to parse.
RECURSIVE ParseAll(_, _, _)
ParseAll(ids, id, acc) ==
    IF ids = <<>> THEN [ok |-> TRUE, rows |-> acc, bad |-> ""]
    ELSE LET p == uuidParse(Head(ids)) IN
         IF ~p.ok THEN [ok |-> FALSE, rows |-> <<>>, bad |-> Head(ids)]
         ELSE ParseAll(Tail(ids), id, Append(acc, [ArtworkID |-> id, Ref |-> p.id]))

TagRows(id, tagIDs) == ParseAll(tagIDs, id, <<>>)

CategoryRows(id, categoryIDs) == ParseAll(categoryIDs, id, <<>>)

RECURSIVE AttributeRows(_, _, _)
AttributeRows(id, attrs, acc) ==
    IF attrs = <<>> THEN [ok |-> TRUE, rows |-> acc, bad |-> ""]
    ELSE LET p == uuidParse(Head(attrs).ID) IN
         IF ~p.ok THEN [ok |-> FALSE, rows |-> <<>>, bad |-> Head(attrs).ID]
         ELSE AttributeRows(id, Tail(attrs),
                            Append(acc, [ArtworkID |-> id, Ref |-> p.id,
                                         Value |-> Head(attrs).Value]))

\* The common shape of the three association goroutines.
BulkUnit(u, parsed, format) ==
    /\ upc[u] = "ready"
    /\ IF ~parsed.ok
       THEN /\ ReturnEarly(u, Errorf(format, parsed.bad))
            /\ UNCHANGED <<form, req, numCPU, pc, resp, artworkID, errClosed,
                           closer, pool, blobs, calls, crashed>>
       ELSE IF Len(parsed.rows) = 0
       THEN /\ ReturnEarly(u, NoErr)
            /\ UNCHANGED <<form, req, numCPU, pc, resp, artworkID, errClosed,
                           closer, pool, blobs, calls, crashed>>
       ELSE \E o \in {"ok", "err", "panic"} :
              \/ /\ o # "panic"
                 /\ TxCreate(u, u, parsed.rows, o)
                 /\ UNCHANGED <<form, req, numCPU, pc, resp, artworkID, errClosed,
                                closer, pool, blobs, calls, crashed>>
              \/ /\ o = "panic"
                 /\ tx.status = "open"
                 /\ faults < MaxFaults
                 /\ Crash

processTags ==
    BulkUnit("tags", TagRows(artworkID, req.back.Tags), "invalid tag ID format: %s")

processCategories ==
    BulkUnit("categories", CategoryRows(artworkID, req.back.Categories),
             "invalid category ID format: %s")

processAttributes ==
    BulkUnit("attributes", AttributeRows(artworkID, req.back.Attributes, <<>>),
             "invalid attribute ID format: %s")

\* Mutant of CloseErrChan: the channel is closed without waiting for the group.
CloseErrChanNoWait ==
    /\ closer = "waiting"
    /\ closer' = "done"
    /\ errClosed' = errClosed + 1
    /\ UNCHANGED <<form, req, numCPU, pc, resp, tx, db, artworkID, upc, uerr, issued,
                   faults, errChan, pool, blobs, calls, crashed>>

\* go func() { wg.Wait(); close(errChan) }()
CloseErrChan ==
    /\ closer = "waiting"
    /\ Running = {}
    /\ closer' = "done"
    /\ errClosed' = errClosed + 1
    /\ UNCHANGED <<form, req, numCPU, pc, resp, tx, db, artworkID, upc, uerr, issued,
                   faults, errChan, pool, blobs, calls, crashed>>

\* Mutant of RangeErr: the handler answers with the latest error on errChan.
RangeErrLast ==
    /\ pc = "wait"
    /\ errChan # <<>>
    /\ errChan' = SubSeq(errChan, 1, Len(errChan) - 1)
    /\ tx' = Rollback(tx)
    /\ calls' = [calls EXCEPT !.rollback = @ + 1]
    /\ resp' = HandleResponse(NewError(500, errChan[Len(errChan)].err))
    /\ pc' = "done"
    /\ UNCHANGED <<form, req, numCPU, db, artworkID, upc, uerr, issued, faults,
                   errClosed, closer, pool, blobs, crashed>>

\* Mutant of RangeErr: before answering, the handler deletes from the blob store
\* what the run uploaded.
RangeErrDeleteBlobs ==
    /\ pc = "wait"
    /\ errChan # <<>>
    /\ errChan' = Tail(errChan)
    /\ tx' = Rollback(tx)
    /\ calls' = [calls EXCEPT !.rollback = @ + 1]
    /\ resp' = HandleResponse(NewError(500, Head(errChan).err))
    /\ pc' = "done"
    /\ blobs' = <<>>
    /\ UNCHANGED <<form, req, numCPU, db, artworkID, upc, uerr, issued, faults,
                   errClosed, closer, pool>>
    /\ crashed' = crashed

\* for err := range errChan { tx.Rollback(); return HandleResponse(...) }
RangeErr ==
    /\ pc = "wait"
    /\ errChan # <<>>
    /\ errChan' = Tail(errChan)
    /\ tx' = Rollback(tx)
    /\ calls' = [calls EXCEPT !.rollback = @ + 1]
    /\ resp' = HandleResponse(NewError(500, Head(errChan).err))
    /\ pc' = "done"
    /\ UNCHANGED <<form, req, numCPU, db, artworkID, upc, uerr, issued, faults,
                   errClosed, closer, pool, blobs, crashed>>

MergeRows(d, r) == [t \in DOMAIN d |-> d[t] \o r[t]]

\* Mutant of Commit: the handler commits as soon as it finds errChan empty,
\* without waiting for the channel to be closed.
CommitWithoutWait ==
    /\ pc = "wait"
    /\ errChan = <<>>
    /\ calls' = [calls EXCEPT !.commit = @ + 1]
    /\ db' = MergeRows(db, tx.rows)
    /\ tx' = [status |-> "committed", rows |-> EmptyRows]
    /\ resp' = HandleResponse(NoErr)
    /\ pc' = "done"
    /\ UNCHANGED <<form, req, numCPU, artworkID, upc, uerr, issued, faults, errChan,
                   errClosed, closer, pool, blobs, crashed>>

\* The range ends once errChan is closed and empty; then tx.Commit().
Commit ==
    /\ pc = "wait"
    /\ errChan = <<>>
    /\ errClosed > 0
    /\ calls' = [calls EXCEPT !.commit = @ + 1]
    /\ \E ok \in BOOLEAN :
         IF ok /\ tx.status = "open"
         THEN /\ db' = MergeRows(db, tx.rows)
              /\ tx' = [status |-> "committed", rows |-> EmptyRows]
              /\ resp' = HandleResponse(NoErr)
         ELSE /\ db' = db
              /\ tx' = IF tx.status = "open"
                       THEN [status |-> "commitfailed", rows |-> EmptyRows] ELSE tx
              /\ resp' = HandleResponse(NewError(500, Text("Failed to commit transaction")))
    /\ pc' = "done"
    /\ UNCHANGED <<form, req, numCPU, artworkID, upc, uerr, issued, faults, errChan,
                   errClosed, closer, pool, blobs, crashed>>

\* ------------------------------------------------------- image upload pool
ValidateImageFile(file) ==
    IF file.Size > MaxImageMB
    THEN NewError(400, Text("Image too large, maximum size is 5MB"))
    ELSE IF ~HasPrefixImage(file.ContentType)
    THEN NewError(400, Text("Only image files are allowed"))
    ELSE NoErr

\* Mutant of NumWorkers: the pool always has four workers, whatever NumCPU is.
NumWorkersIgnoreCPU(cpus) == PoolLimit

\* numWorkers := runtime.NumCPU(); if numWorkers > 4 { numWorkers = 4 }
NumWorkers(cpus) == Min(cpus, PoolLimit)

\* jobs := make(chan job, len(files))
JobsCap(n) == n

\* Mutant of ResultsCap: the results channel holds one result less than there
\* are files.
ResultsCapOneShort(n) == n - 1

\* results := make(chan result, len(files))
ResultsCap(n) == n

NumFiles == Len(req.back.Images)

\* processImages calls uploadImagesConcurrently: the channels are made, the
\* workers started, every job sent to the jobs channel (its capacity is the number
\* of files) and the channel closed; the function then waits for the workers.
PoolStart ==
    /\ upc["images"] = "ready"
    /\ \E cpus \in 1..MaxCPU :
         /\ numCPU' = cpus
         /\ pool' = [PoolOff EXCEPT !.phase = "wait",
                                    !.numWorkers = NumWorkers(cpus),
                                    !.wk = [w \in 1..NumWorkers(cpus) |->
                                              [st |-> "idle", job |-> 0]],
                                    !.jobs = [i \in 1..NumFiles |-> i - 1],
                                    !.jobsClosed = TRUE]
    /\ upc' = [upc EXCEPT !["images"] = "pool"]
    /\ UNCHANGED <<form, req, pc, resp, tx, db, artworkID, uerr, issued, faults,
                   errChan, errClosed, closer, blobs, calls, crashed>>

\* results <- result{...}: the channel's capacity is the number of files.
SendResult(p, res) == [p EXCEPT !.results = Append(@, res)]

\* A worker receives a job and validates its file. The workers run the same
\* code: of those waiting on the jobs channel, the first is taken as the receiver.
WorkerTake(w) ==
    /\ w \in DOMAIN pool.wk
    /\ pool.wk[w].st = "idle"
    /\ \A v \in 1..(w - 1) : pool.wk[v].st # "idle"
    /\ pool.jobs # <<>>
    /\ LET j == Head(pool.jobs)
           err == ValidateImageFile(req.back.Images[j + 1])
           p == [pool EXCEPT !.jobs = Tail(@)]
       IN IF err # NoErr
          THEN /\ Len(pool.results) < ResultsCap(NumFiles)
               /\ pool' = SendResult(p, [index |-> j, url |-> 0, err |-> err])
          ELSE pool' = [p EXCEPT !.wk[w] = [st |-> "busy", job |-> j]]
    /\ UNCHANGED <<form, req, numCPU, pc, resp, tx, db, artworkID, upc, uerr, issued,
                   faults, errChan, errClosed, closer, blobs, calls, crashed>>

\* Mutant of UploadFile: the file is stored twice.
UploadFileTwice(w, o) ==
    LET j == pool.wk[w].job
        p == [pool EXCEPT !.wk[w] = [st |-> "idle", job |-> 0]]
    IN IF o = "ok"
       THEN /\ faults' = faults
            /\ blobs' = Append(Append(blobs, j), j)
            /\ pool' = SendResult(p, [index |-> j, url |-> Len(blobs) + 2,
                                      err |-> NoErr])
       ELSE /\ Fault
            /\ blobs' = blobs
            /\ pool' = SendResult(p, [index |-> j, url |-> 0,
                                      err |-> Errorf("failed to upload image: %v", "")])

\* cld.UploadFile: the blob store keeps the file and names it, or the call fails.
UploadFile(w, o) ==
    LET j == pool.wk[w].job
        p == [pool EXCEPT !.wk[w] = [st |-> "idle", job |-> 0]]
    IN IF o = "ok"
       THEN /\ faults' = faults
            /\ blobs' = Append(blobs, j)
            /\ pool' = SendResult(p, [index |-> j, url |-> Len(blobs) + 1,
                                      err |-> NoErr])
       ELSE /\ Fault
            /\ blobs' = blobs
            /\ pool' = SendResult(p, [index |-> j, url |-> 0,
                                      err |-> Errorf("failed to upload image: %v", "")])

WorkerUpload(w) ==
    /\ w \in DOMAIN pool.wk
    /\ pool.wk[w].st = "busy"
    /\ \E o \in {"ok", "err", "panic"} :
         \/ /\ o # "panic"
            /\ Len(pool.results) < ResultsCap(NumFiles)
            /\ UploadFile(w, o)
            /\ UNCHANGED <<form, req, numCPU, pc, resp, tx, db, artworkID, upc, uerr,
                           issued, errChan, errClosed, closer, calls, crashed>>
         \/ /\ o = "panic"
            /\ faults < MaxFaults
            /\ Crash

\* A worker's range over jobs ends, and the worker with it, once the channel is
\* closed and drained.
Exited(w) == pool.wk[w].st = "idle" /\ pool.jobs = <<>> /\ pool.jobsClosed

\* Mutant of Collect: the urls are kept in the order the results arrive.
CollectInArrivalOrder(results, urls) ==
    IF \E k \in DOMAIN results : results[k].err # NoErr
    THEN [urls |-> <<>>,
          err |-> results[CHOOSE k \in DOMAIN results :
                            /\ results[k].err # NoErr
                            /\ \A m \in 1..(k - 1) : results[m].err = NoErr].err]
    ELSE [urls |-> [k \in DOMAIN results |-> results[k].url], err |-> NoErr]

\* Mutant of Collect: a result with an error is skipped.
RECURSIVE CollectSkipErrors(_, _)
CollectSkipErrors(results, urls) ==
    IF results = <<>> THEN [urls |-> urls, err |-> NoErr]
    ELSE IF Head(results).err # NoErr THEN CollectSkipErrors(Tail(results), urls)
    ELSE CollectSkipErrors(Tail(results),
                           [urls EXCEPT ![Head(results).index + 1] = Head(results).url])

\* for res := range results: the first result with an error ends the function,
\* any other result stores its url at its index.
RECURSIVE Collect(_, _)
Collect(results, urls) ==
    IF results = <<>> THEN [urls |-> urls, err |-> NoErr]
    ELSE IF Head(results).err # NoErr THEN [urls |-> <<>>, err |-> Head(results).err]
    ELSE Collect(Tail(results),
                 [urls EXCEPT ![Head(results).index + 1] = Head(results).url])

\* wg.Wait() returned: close(results), the range over results, and back in
\* processImages, which returns the error if there is one.
PoolCollect ==
    /\ pool.phase = "wait"
    /\ \A w \in DOMAIN pool.wk : Exited(w)
    /\ LET out == Collect(pool.results, [i \in 1..NumFiles |-> 0]) IN
         /\ pool' = [pool EXCEPT !.phase = "done", !.resultsClosed = @ + 1,
                                 !.urls = out.urls, !.err = out.err]
         /\ IF out.err # NoErr
            THEN ReturnEarly("images", out.err)
            ELSE /\ upc' = [upc EXCEPT !["images"] = "insert"]
                 /\ UNCHANGED <<uerr, errChan, tx, db, issued, faults>>
    /\ UNCHANGED <<form, req, numCPU, pc, resp, artworkID, errClosed, closer, blobs,
                   calls, crashed>>

\* Mutant of ImageRows: the last image is flagged primary.
ImageRowsLastPrimary(id, imageURLs) ==
    [i \in 1..Len(imageURLs) |->
        [ArtworkID |-> id, ImageURL |-> imageURLs[i],
         IsPrimary |-> (i = Len(imageURLs))]]

ImageRows(id, imageURLs) ==
    [i \in 1..Len(imageURLs) |->
        [ArtworkID |-> id, ImageURL |-> imageURLs[i], IsPrimary |-> (i - 1 = 0)]]

\* processImages after the upload: the rows and their bulk insert.
processImages ==
    /\ upc["images"] = "insert"
    /\ \E o \in {"ok", "err", "panic"} :
         \/ /\ o # "panic"
            /\ TxCreate("images", "images", ImageRows(artworkID, pool.urls), o)
            /\ UNCHANGED <<form, req, numCPU, pc, resp, artworkID, errClosed,
                           closer, pool, blobs, calls, crashed>>
         \/ /\ o = "panic"
            /\ tx.status = "open"
            /\ faults < MaxFaults
            /\ Crash

\* ------------------------------------------------------- specification
Next ==
    \/ Validate
    \/ Begin
    \/ CountExisting
    \/ createArtwork
    \/ FanOut
    \/ processEditions
    \/ processTags
    \/ processCategories
    \/ processAttributes
    \/ PoolStart
    \/ \E w \in 1..PoolLimit : WorkerTake(w)
    \/ \E w \in 1..PoolLimit : WorkerUpload(w)
    \/ PoolCollect
    \/ processImages
    \/ CloseErrChan
    \/ RangeErr
    \/ Commit

Spec == Init /\ [][Next]_vars

\* The Go scheduler runs every goroutine that can take a step: each worker of the
\* pool, and the goroutine that waits for the workers and collects the results.
PoolFairness ==
    /\ \A w \in 1..PoolLimit : WF_vars(WorkerTake(w)) /\ WF_vars(WorkerUpload(w))
    /\ WF_vars(PoolCollect)

FairSpec == Spec /\ PoolFairness

\* Likewise every fan-out goroutine that can take a step is run.
UnitFairness ==
    /\ WF_vars(processEditions)
    /\ WF_vars(processTags)
    /\ WF_vars(processCategories)
    /\ WF_vars(processAttributes)
    /\ WF_vars(PoolStart)
    /\ WF_vars(processImages)

FairUnitsSpec == Spec /\ PoolFairness /\ UnitFairness

\* The handler serves one request after another. The same caller sends the same
\* request again once the previous call has answered with success: the handler
\* starts afresh, the database and the blob store keep what they hold.
NextCall ==
    /\ pc = "done"
    /\ resp.success
    /\ Len(db.artworks) < MaxCalls
    /\ pc' = "validate"
    /\ resp' = NoResp
    /\ tx' = [status |-> "none", rows |-> EmptyRows]
    /\ artworkID' = <<"uuid", "nil">>
    /\ upc' = [u \in UNITS |-> "off"]
    /\ uerr' = [u \in UNITS |-> NoErr]
    /\ issued' = [u \in UNITS |-> <<>>]
    /\ errChan' = <<>>
    /\ errClosed' = 0
    /\ closer' = "off"
    /\ pool' = PoolOff
    /\ numCPU' = 0
    /\ calls' = NoCalls
    /\ UNCHANGED <<form, req, db, blobs, faults, crashed>>

\* The requests sent twice: every combination of the five optional collections
\* behind the plain valid front.
RepeatedRequests == {[front |-> PlainFront, back |-> b] : b \in BackFields}

TwoCallsInit == Init /\ req \in RepeatedRequests

TwoCallsNext == Next \/ NextCall

TwoCallsSpec == TwoCallsInit /\ [][TwoCallsNext]_vars

\* The step before validation: parseFormData fills the request from the form.
\* Here the attribute fields are read, the other fields being those of the plain
\* request.
parseFormData ==
    /\ pc = "parse"
    /\ req' = [req EXCEPT !.back.Attributes = parseAttributes(form, 0, @)]
    /\ pc' = "validate"
    /\ UNCHANGED <<form, numCPU, resp, tx, db, artworkID, upc, uerr, issued,
                   faults, errChan, errClosed, closer, pool, blobs, calls, crashed>>

ParseInit ==
    /\ form \in Forms
    /\ req = [front |-> PlainFront, back |-> PlainBack]
    /\ numCPU = 0
    /\ pc = "parse"
    /\ resp = NoResp
    /\ tx = [status |-> "none", rows |-> EmptyRows]
    /\ db = EmptyRows
    /\ artworkID = <<"uuid", "nil">>
    /\ upc = [u \in UNITS |-> "off"]
    /\ uerr = [u \in UNITS |-> NoErr]
    /\ issued = [u \in UNITS |-> <<>>]
    /\ faults = 0
    /\ errChan = <<>>
    /\ errClosed = 0
    /\ closer = "off"
    /\ pool = PoolOff
    /\ blobs = <<>>
    /\ calls = NoCalls
    /\ crashed = FALSE

ParseNext == parseFormData

ParseSpec == ParseInit /\ [][ParseNext]_vars

\* ------------------------------------------------------- claims
Failed == pc = "done" /\ ~resp.success

\* C1. Atomicity on failure: once a run has ended in a failure response, the
\* database holds no Artwork, ArtworkTag, ArtworkCategory, ArtworkAttribute,
\* ArtworkImage or Edition row of that run, whatever the goroutines still do.
C1_AtomicOnFailure == Failed => db = EmptyRows

\* A failed run in which the tags goroutine had written its rows into the
\* transaction before another goroutine's error made the handler roll back.
C1_Witness ==
    /\ Failed
    /\ tx.status = "rolledback"
    /\ upc["tags"] = "done" /\ uerr["tags"] = NoErr /\ issued["tags"] # <<>>
    /\ \E u \in UNITS : upc[u] = "done" /\ uerr[u] # NoErr

\* C2. Commit is issued by the handler only, at most once, and only when every
\* launched goroutine has finished and none reported an error; no goroutine of
\* the fan-out or of the pool commits or rolls back the transaction.
C2_CommitOnlyWhenAllSucceeded ==
    [][/\ calls'.commit # calls.commit =>
            /\ calls.commit = 0 /\ calls'.commit = 1
            /\ pc = "wait" /\ pc' = "done"
            /\ Running = {}
            /\ \A u \in UNITS : uerr[u] = NoErr
            /\ errChan = <<>>
       /\ db' # db => calls'.commit # calls.commit
       /\ (tx'.status # tx.status /\ ~crashed') => pc' # pc]_vars

\* A committed run in which all five goroutines were launched.
C2_Witness ==
    /\ tx.status = "committed"
    /\ Launched(req.back) = UNITS
    /\ \A u \in UNITS : upc[u] = "done"

\* C3. Fan-in ordering: the handler rolls back and responds only after every
\* launched goroutine has finished.
C3_RespondsAfterAllUnits == (closer # "off" /\ pc = "done") => Running = {}

\* C4. No goroutine performs an operation on the transaction handle after the
\* handler has rolled it back or returned.
C4_NoUseAfterRollback == LateUse = {}

\* C5. A panic inside a fan-out goroutine or an upload worker does not end the
\* process: it is recovered and the transaction rolled back.
C5_PanicRecovered == ~crashed /\ tx.status # "lost"

\* C6. Every run that opens a transaction leaves it Committed or RolledBack.
C6_TerminalState ==
    (pc \in {"done", "crashed"} /\ calls.begin > 0)
        => tx.status \in {"committed", "rolledback"}

IdsOf(u) ==
    IF u = "tags" THEN req.back.Tags
    ELSE IF u = "categories" THEN req.back.Categories
    ELSE [i \in 1..Len(req.back.Attributes) |-> req.back.Attributes[i].ID]

InvalidFormat(u) ==
    IF u = "tags" THEN "invalid tag ID format: %s"
    ELSE IF u = "categories" THEN "invalid category ID format: %s"
    ELSE "invalid attribute ID format: %s"

\* What the transaction and the database hold of the rows goroutine u passed to
\* tx.Create without an error.
Stored(u) ==
    uerr[u] = NoErr =>
        /\ tx.status = "open" => tx.rows[u] = issued[u]
        /\ tx.status = "committed" => db[u] = issued[u]

\* C7. All-or-nothing association insert: once the tags, categories or attributes
\* goroutine has finished, if all N identifier strings parse, it has passed
\* exactly N rows to one insert, the i-th referencing the new artwork and the
\* i-th identifier (and carrying the i-th value); if one string fails to parse, it
\* has written no row and reports the invalid-format error naming that string.
C7_AllOrNothingAssociations ==
    \A u \in {"tags", "categories", "attributes"} :
        upc[u] = "done" =>
            LET ids == IdsOf(u) IN
            IF \A i \in 1..Len(ids) : uuidParse(ids[i]).ok
            THEN /\ Len(issued[u]) = Len(ids)
                 /\ artworkID # <<"uuid", "nil">>
                 /\ \A i \in 1..Len(ids) :
                      /\ issued[u][i].ArtworkID = artworkID
                      /\ issued[u][i].Ref = <<"uuid", ids[i]>>
                      /\ u = "attributes" =>
                           issued[u][i].Value = req.back.Attributes[i].Value
                 /\ uerr[u] \in {NoErr, ErrDB, ErrTxDone}
                 /\ Stored(u)
            ELSE /\ issued[u] = <<>>
                 /\ tx.rows[u] = <<>>
                 /\ db[u] = <<>>
                 /\ uerr[u].msg = InvalidFormat(u)
                 /\ \E i \in 1..Len(ids) :
                      /\ uerr[u].arg = ids[i]
                      /\ ~uuidParse(ids[i]).ok
                      /\ \A k \in 1..(i - 1) : uuidParse(ids[k]).ok

\* A committed run with two different tag rows.
C7_Witness ==
    /\ tx.status = "committed"
    /\ Len(db.tags) = 2
    /\ db.tags[1].Ref # db.tags[2].Ref

Uploaded(j) == \E url \in DOMAIN blobs : blobs[url] = j

\* C8. When every one of the K >= 1 images passes validation and is uploaded, the
\* images goroutine passes exactly K rows to its insert, all for the new artwork,
\* the i-th with the url of the i-th submitted file, the first with
\* isPrimary = true and every other with isPrimary = false.
C8_ImageRowsAndPrimary ==
    (/\ upc["images"] = "done"
     /\ NumFiles >= 1
     /\ \A j \in 0..(NumFiles - 1) :
          ValidateImageFile(req.back.Images[j + 1]) = NoErr /\ Uploaded(j))
    => /\ Len(issued["images"]) = NumFiles
       /\ \A i \in 1..NumFiles :
            /\ i \in DOMAIN issued["images"]
            /\ issued["images"][i].ArtworkID = artworkID
            /\ issued["images"][i].ImageURL \in DOMAIN blobs
            /\ blobs[issued["images"][i].ImageURL] = i - 1
            /\ issued["images"][i].IsPrimary = (i = 1)
       /\ Cardinality({i \in DOMAIN issued["images"] :
                         issued["images"][i].IsPrimary}) = 1
       /\ uerr["images"] \in {NoErr, ErrDB, ErrTxDone}
       /\ Stored("images")

\* A committed run with two image rows, where the first submitted file was the
\* second to be stored.
C8_Witness ==
    /\ tx.status = "committed"
    /\ Len(db.images) = 2
    /\ db.images[1].IsPrimary
    /\ db.images[1].ImageURL = 2

\* C9. Order restoration: when the pool returns without an error, the i-th url is
\* the one the blob store gave to the i-th submitted file, for every number of
\* workers and every order of completion.
C9_OrderRestored ==
    (pool.phase = "done" /\ pool.err = NoErr)
    => /\ Len(pool.urls) = NumFiles
       /\ \A i \in 1..NumFiles :
            /\ i \in DOMAIN pool.urls
            /\ pool.urls[i] \in DOMAIN blobs
            /\ blobs[pool.urls[i]] = i - 1

\* Two workers finished two uploads in the reverse of the submission order.
C9_Witness ==
    /\ pool.phase = "done"
    /\ pool.err = NoErr
    /\ pool.numWorkers = 2
    /\ pool.urls = <<2, 1>>

ImageFailed == \E j \in 0..(NumFiles - 1) : ~Uploaded(j)

\* C10. If validation or upload fails for at least one image, the pool returns an
\* error and no url list, the images goroutine writes no ArtworkImage row, and
\* it sends the error on errChan.
C10_ImageFailureWritesNothing ==
    /\ []((pool.phase = "done" /\ ImageFailed)
          => /\ pool.err # NoErr
             /\ pool.urls = <<>>
             /\ issued["images"] = <<>>
             /\ tx.rows.images = <<>>
             /\ db.images = <<>>
             /\ upc["images"] = "done"
             /\ uerr["images"] = pool.err)
    /\ [][(pool.phase = "wait" /\ pool'.phase = "done" /\ ImageFailed')
          => errChan' = Append(errChan, [unit |-> "images", err |-> pool'.err])]_vars

\* One of two images failed after the other had been stored.
C10_Witness ==
    /\ pool.phase = "done"
    /\ NumFiles = 2
    /\ Len(blobs) = 1
    /\ ImageFailed

\* The uploads in flight: the workers inside cld.UploadFile.
InFlight == {w \in DOMAIN pool.wk : pool.wk[w].st = "busy"}

\* C11. Bounded upload concurrency: in every state of a run the number of blob
\* uploads in flight is at most min(4, NumCPU), the number of workers of the pool,
\* whatever the number of submitted images.
C11_BoundedUploads ==
    pool.phase # "off" =>
        /\ numCPU >= 1
        /\ pool.numWorkers = Min(PoolLimit, numCPU)
        /\ Len(pool.wk) = pool.numWorkers
        /\ Cardinality(InFlight) <= Min(PoolLimit, numCPU)

\* On a machine with more than four processors, four uploads are in flight: the
\* limit of four is reached and not NumCPU.
C11_Witness ==
    /\ numCPU > PoolLimit
    /\ Cardinality(InFlight) = PoolLimit

\* C12. Upload pool termination: for every number of images and every pool size
\* and every mix of successes and failures, if each validation and upload call
\* returns, neither channel ever holds more than its capacity, the jobs channel
\* is closed, and the pool returns with every worker exited, every job taken and
\* one result per file.
C12_PoolTerminates ==
    /\ [](pool.phase = "wait" =>
            /\ pool.jobsClosed
            /\ Len(pool.jobs) <= JobsCap(NumFiles)
            /\ Len(pool.results) <= ResultsCap(NumFiles))
    /\ [](pool.phase = "done" =>
            /\ \A w \in DOMAIN pool.wk : Exited(w)
            /\ Len(pool.results) = NumFiles
            /\ pool.resultsClosed = 1)
    /\ (pool.phase = "wait") ~> (pool.phase = "done" \/ crashed)

\* The pool returned after more files than workers, some stored and some failed.
C12_Witness ==
    /\ pool.phase = "done"
    /\ pool.numWorkers >= 2
    /\ NumFiles > pool.numWorkers
    /\ \E i, j \in DOMAIN pool.results :
          pool.results[i].err = NoErr /\ pool.results[j].err # NoErr

\* The request has an empty title, an empty type, or a creation date that is not
\* a YYYY-MM-DD date.
FailsValidation ==
    \/ req.front.Title = ""
    \/ req.front.Type = ""
    \/ req.front.CreationDate # "" /\ req.front.CreationDate \notin ValidDates

NoUnitLaunched ==
    /\ \A u \in UNITS : upc[u] = "off" /\ issued[u] = <<>>
    /\ closer = "off"
    /\ errChan = <<>>
    /\ pool.phase = "off"
    /\ blobs = <<>>

\* C13. Validation short-circuit: a request with an empty title, an empty type or
\* a malformed creation date is rejected before a transaction is opened: the run
\* has no begin, no database write, no blob upload and launches no goroutine.
C13_ValidationShortCircuit ==
    FailsValidation =>
        /\ pc \in {"validate", "done"}
        /\ calls = NoCalls
        /\ tx = [status |-> "none", rows |-> EmptyRows]
        /\ db = EmptyRows
        /\ artworkID = <<"uuid", "nil">>
        /\ NoUnitLaunched
        /\ pc = "done" =>
              /\ ~resp.success
              /\ resp.error.msg \in {"title is required", "type is required",
                                     "invalid creation date format, use YYYY-MM-DD"}

\* A request with a title and a type was rejected for its creation date.
C13_Witness ==
    /\ pc = "done"
    /\ req.front.Title # "" /\ req.front.Type # ""
    /\ req.front.CreationDate = "01/05/2024"
    /\ resp.error.msg = "invalid creation date format, use YYYY-MM-DD"

\* C14. A run rejected for a collection that is malformed or not owned by the
\* caller never begins, and so never rolls back, a transaction.
C14_CollectionCheckedBeforeBegin ==
    (/\ pc = "done"
     /\ resp.error.msg \in {"Invalid collection ID format",
                             "Collection does not belong to you"})
    => calls.begin = 0 /\ calls.rollback = 0 /\ tx.status = "none"

Owns(userID, id) ==
    \E c \in Collections : <<"uuid", c.id>> = id /\ c.user_id = userID

\* C15. Collection ownership: every Artwork row written with a collection
\* reference names a collection owned by the caller; and if the request names a
\* collection of which the caller owns no row, no Artwork row is created, no
\* goroutine is launched and the run fails.
C15_CollectionOwnership ==
    /\ \A t \in {tx.rows.artworks, db.artworks} : \A i \in DOMAIN t :
          /\ t[i].UserID = CALLER
          /\ t[i].CollectionID # <<"uuid", "nil">> =>
                /\ t[i].CollectionID = <<"uuid", req.front.CollectionID>>
                /\ Owns(CALLER, t[i].CollectionID)
    /\ (/\ req.front.CollectionID # ""
        /\ ~Owns(CALLER, <<"uuid", req.front.CollectionID>>))
       => /\ tx.rows.artworks = <<>>
          /\ db.artworks = <<>>
          /\ artworkID = <<"uuid", "nil">>
          /\ pc \notin {"launch", "wait"}
          /\ NoUnitLaunched
          /\ pc = "done" => ~resp.success

\* A valid request naming another user's collection was refused.
C15_Witness ==
    /\ pc = "done"
    /\ req.front.CollectionID = "c2"
    /\ ~FailsValidation
    /\ resp.status = 403
    /\ resp.error.msg = "Collection does not belong to you"

\* The request holds no tag, category, attribute or image and no positive pair
\* of edition numbers.
NoOptional ==
    /\ Len(req.back.Tags) = 0
    /\ Len(req.back.Categories) = 0
    /\ Len(req.back.Attributes) = 0
    /\ Len(req.back.Images) = 0
    /\ ~(req.back.Edition[1] > 0 /\ req.back.Edition[2] > 0)

\* The request passes validation and names no collection or one the caller owns.
ValidRequest ==
    /\ ~FailsValidation
    /\ req.front.CollectionID # "" => Owns(CALLER, <<"uuid", req.front.CollectionID>>)

\* The failures the database can answer the handler's own calls with, whatever
\* the request is: each has its message, and one injected at the insert of the
\* Artwork row is counted in faults.
DatabaseFailed ==
    \/ resp.error.msg \in {"Failed to start transaction",
                            "Failed to check existing artworks",
                            "Failed to verify collection",
                            "Failed to commit transaction"}
    \/ resp.error.msg = "Failed to create artwork" /\ faults > 0
    \/ resp = EmptyResponse

\* C16. For every valid request without tags, categories, attributes, images and
\* positive edition pair, no goroutine is launched and the run, unless the
\* database fails, commits and leaves exactly one Artwork row and no association
\* row; an absent optional collection causes no error.
C16_PlainRequestCommits ==
    (ValidRequest /\ NoOptional) =>
        /\ \A u \in UNITS : upc[u] = "off" /\ issued[u] = <<>> /\ uerr[u] = NoErr
        /\ errChan = <<>> /\ pool.phase = "off" /\ blobs = <<>>
        /\ pc = "done" =>
              \/ /\ resp.success
                 /\ tx.status = "committed"
                 /\ Len(db.artworks) = 1
                 /\ db.artworks[1].ID = artworkID
                 /\ db.artworks[1].Title = req.front.Title
                 /\ \A t \in UNITS : db[t] = <<>>
              \/ /\ ~resp.success
                 /\ db = EmptyRows
                 /\ DatabaseFailed

\* C17. Editions: if the edition number and the total are both positive, the
\* editions goroutine is launched and passes exactly one row to its insert, for
\* the new artwork, with those two numbers and the status "available"; if either
\* is zero or negative, the goroutine is not launched and no Edition row is
\* written.
C17_Editions ==
    IF req.back.Edition[1] > 0 /\ req.back.Edition[2] > 0
    THEN /\ closer # "off" => upc["editions"] # "off"
         /\ upc["editions"] = "done" =>
               /\ issued["editions"] =
                     <<[ArtworkID |-> artworkID,
                        EditionNumber |-> req.back.Edition[1],
                        TotalEditions |-> req.back.Edition[2],
                        Status |-> "available"]>>
               /\ artworkID # <<"uuid", "nil">>
               /\ uerr["editions"] \in {NoErr, ErrDB, ErrTxDone}
               /\ Stored("editions")
         /\ upc["editions"] = "ready" =>
               issued["editions"] = <<>> /\ tx.rows.editions = <<>>
         /\ Len(db.editions) <= 1
         /\ tx.status = "committed" => Len(db.editions) = 1
    ELSE /\ upc["editions"] = "off"
         /\ issued["editions"] = <<>>
         /\ tx.rows.editions = <<>>
         /\ db.editions = <<>>

\* A committed run with its Edition row.
C17_Witness ==
    /\ tx.status = "committed"
    /\ db.editions = <<[ArtworkID |-> artworkID, EditionNumber |-> 1,
                        TotalEditions |-> 2, Status |-> "available"]>>

\* The committed rows of table t that belong to the artwork id, without the
\* reference to the artwork and without the url the blob store chose.
RowsOf(t, id) ==
    LET own == SelectSeq(db[t], LAMBDA r : r.ArtworkID = id) IN
    [k \in DOMAIN own |->
        IF t = "images"
        THEN [own[k] EXCEPT !.ArtworkID = <<"uuid", "nil">>, !.ImageURL = 0]
        ELSE [own[k] EXCEPT !.ArtworkID = <<"uuid", "nil">>]]

\* The number of rows of table t a successful call writes for the request.
RowCount(t) ==
    IF t = "editions"
    THEN (IF req.back.Edition[1] > 0 /\ req.back.Edition[2] > 0 THEN 1 ELSE 0)
    ELSE IF t = "tags" THEN Len(req.back.Tags)
    ELSE IF t = "categories" THEN Len(req.back.Categories)
    ELSE IF t = "attributes" THEN Len(req.back.Attributes)
    ELSE Len(req.back.Images)

\* A later call of the same request is running or has ended without a commit.
LaterCall == db.artworks # <<>> /\ tx.status # "committed"

FailedUnits == {u \in UNITS : upc[u] = "done" /\ uerr[u] # NoErr}

\* C19. First-error-wins: while the handler waits, errChan holds the errors of
\* the goroutines that failed, in the order they reported; when it is not empty
\* the handler leaves the wait with one rollback and one failure response, which
\* carries the first error on the channel; after that response nothing responds
\* or rolls back again, the other errors staying unread.
C19_FirstErrorWins ==
    /\ [](pc = "wait" =>
            /\ resp = NoResp
            /\ calls.rollback = 0
            /\ {errChan[k].unit : k \in DOMAIN errChan} = FailedUnits
            /\ Len(errChan) = Cardinality(FailedUnits)
            /\ \A k \in DOMAIN errChan : errChan[k].err = uerr[errChan[k].unit])
    /\ [][(pc = "wait" /\ pc' = "wait") =>
            /\ Len(errChan') >= Len(errChan)
            /\ SubSeq(errChan', 1, Len(errChan)) = errChan]_vars
    /\ [][(pc = "wait" /\ pc' # "wait" /\ errChan # <<>> /\ ~crashed') =>
            /\ pc' = "done"
            /\ resp' = [status |-> 500, success |-> FALSE,
                        error |-> [msg |-> Head(errChan).err.msg,
                                   arg |-> Head(errChan).err.arg]]
            /\ calls'.rollback = 1
            /\ calls'.commit = 0]_vars
    /\ [][pc = "done" =>
            /\ pc' \in {"done", "crashed"}
            /\ resp' = resp
            /\ calls' = calls]_vars

\* The tags goroutine reported first and its error was answered; the error of
\* the categories goroutine is left on errChan.
C19_Witness ==
    /\ pc = "done"
    /\ resp.error = [msg |-> "invalid tag ID format: %s", arg |-> "not-a-uuid"]
    /\ errChan # <<>>
    /\ Head(errChan).unit = "categories"
    /\ calls.rollback = 1

ClientErrors ==
    {"title is required", "type is required",
     "invalid creation date format, use YYYY-MM-DD", "Invalid creation date format",
     "Invalid collection ID format", "invalid tag ID format: %s",
     "invalid category ID format: %s", "invalid attribute ID format: %s",
     "Image too large, maximum size is 5MB", "Only image files are allowed"}

ServerErrors ==
    {"Failed to start transaction", "Failed to check existing artworks",
     "Failed to verify collection", "Failed to create artwork",
     "Failed to commit transaction", "failed to upload image: %v",
     "database error",
     "sql: transaction has already been committed or rolled back"}

\* C20. The status class of a failure response matches its error kind: 4xx for
\* validation failures, malformed references and rejected uploads; 403 or 409
\* for a collection the caller does not own; 5xx for failures of the blob
\* store, of a database write and of the commit.
C20_StatusClass ==
    (pc = "done" /\ ~resp.success /\ resp # EmptyResponse) =>
        /\ resp.error.msg \in ClientErrors => resp.status \in 400..499
        /\ resp.error.msg = "Collection does not belong to you"
              => resp.status \in {403, 409}
        /\ resp.error.msg \in ServerErrors => resp.status \in 500..599

\* The attributes[i][id] key is missing: not in the form, or without a value.
IdMissing(i) == i >= Len(form) \/ ~form[i + 1].id.ok \/ form[i + 1].id.vals = <<>>

\* The smallest index whose id key is missing.
FirstMissing == CHOOSE m \in 0..Len(form) :
                    IdMissing(m) /\ \A i \in 0..(m - 1) : ~IdMissing(i)

\* C26. Attribute normalization: after parseFormData the attribute list is the
\* sequence of the (id, value) entries at the indices 0 .. m-1 in ascending
\* order, m the smallest index whose id key is missing; entries above it are
\* dropped, and an entry whose value key is missing gets the empty value.
C26_AttributeNormalization ==
    pc = "validate" =>
        /\ Len(req.back.Attributes) = FirstMissing
        /\ \A i \in 0..(FirstMissing - 1) :
              /\ req.back.Attributes[i + 1].ID = form[i + 1].id.vals[1]
              /\ req.back.Attributes[i + 1].Value =
                    IF form[i + 1].value.ok /\ form[i + 1].value.vals # <<>>
                    THEN form[i + 1].value.vals[1] ELSE ""

\* A form with attributes 0 and 2 but not 1, attribute 0 without a value: the
\* list holds attribute 0 alone, with the empty value.
C26_Witness ==
    /\ pc = "validate"
    /\ Len(form) >= 3
    /\ ~IdMissing(0) /\ IdMissing(1) /\ ~IdMissing(2)
    /\ ~form[1].value.ok
    /\ req.back.Attributes = <<[ID |-> form[1].id.vals[1], Value |-> ""]>>

\* C21. A non-empty medium id that does not parse makes the run fail, and no
\* Artwork row is written.
C21_MalformedMediumRejected ==
    (req.front.MediumID # "" /\ ~uuidParse(req.front.MediumID).ok) =>
        /\ tx.rows.artworks = <<>>
        /\ db.artworks = <<>>
        /\ pc = "done" => ~resp.success

\* C22. Blob storage is never retracted: every step of a run leaves the objects
\* already in the blob store where they are, and after a failed run the
\* database holds no row, so none that refers to them.
C22_BlobsNeverRetracted ==
    /\ [][/\ Len(blobs') >= Len(blobs)
           /\ SubSeq(blobs', 1, Len(blobs)) = blobs]_vars
    /\ [](Failed => db = EmptyRows)

\* A run failed for a malformed tag, with an image of the run in the blob store.
C22_Witness ==
    /\ Failed
    /\ resp.error.msg = "invalid tag ID format: %s"
    /\ tx.status = "rolledback"
    /\ Len(blobs) >= 1

\* C23. Validate-before-upload: every object in the blob store is a file that is
\* not empty, not over the size ceiling and of an image content type.
C23_ValidateBeforeUpload ==
    \A url \in DOMAIN blobs :
        LET file == req.back.Images[blobs[url] + 1] IN
        /\ file.Size > 0
        /\ file.Size <= MaxImageMB
        /\ HasPrefixImage(file.ContentType)

\* Some foreign identifier of the request is malformed.
MalformedId ==
    \/ req.front.CollectionID # "" /\ ~uuidParse(req.front.CollectionID).ok
    \/ req.front.MediumID # "" /\ ~uuidParse(req.front.MediumID).ok
    \/ \E u \in {"tags", "categories", "attributes"} :
          \E i \in DOMAIN IdsOf(u) : ~uuidParse(IdsOf(u)[i]).ok

\* C24. The well-formedness of every foreign identifier is checked before the
\* first database write: no run with a malformed identifier inserts the Artwork
\* row.
C24_IdsCheckedBeforeWrite ==
    MalformedId => (tx.rows.artworks = <<>> /\ artworkID = <<"uuid", "nil">>)

\* C25. Root insert failure is fatal and not retried: the step that creates the
\* Artwork row is taken once; if it fails (the collection check in it included)
\* the transaction is rolled back, no goroutine is launched, no upload starts
\* and the run ends in failure.
C25_RootInsertFatal ==
    /\ [][pc' = "create" => pc = "count"]_vars
    /\ [][(pc = "create" /\ pc' # "create" /\ artworkID' = <<"uuid", "nil">>) =>
            /\ pc' = "done"
            /\ ~resp'.success
            /\ tx' = [status |-> "rolledback", rows |-> EmptyRows]
            /\ calls'.rollback = calls.rollback + 1
            /\ calls'.commit = 0
            /\ db' = EmptyRows]_vars
    /\ []((pc = "done" /\ calls.begin = 1 /\ artworkID = <<"uuid", "nil">>) =>
            /\ NoUnitLaunched
            /\ ~resp.success
            /\ db = EmptyRows)

\* The insert of the Artwork row failed and the run ended rolled back.
C25_Witness ==
    /\ pc = "done"
    /\ resp.error.msg = "Failed to create artwork"
    /\ faults = 1
    /\ tx.status = "rolledback"
    /\ calls.rollback = 1

FailedResults == {k \in DOMAIN pool.results : pool.results[k].err # NoErr}

\* The result of the failing image with the lowest submission index.
LowestFailed ==
    CHOOSE k \in FailedResults :
        \A m \in FailedResults : pool.results[k].index <= pool.results[m].index

\* C27. Deterministic pool error: when images fail, the error the pool returns is
\* that of the failing image with the lowest submission index.
C27_LowestIndexError ==
    (pool.phase = "done" /\ pool.err # NoErr) =>
        /\ FailedResults # {}
        /\ pool.err = pool.results[LowestFailed].err

\* C28. Reporting never blocks: errChan has room for the error of every
\* goroutine that has still to report, at most five being launched and each
\* sending at most once, and it is open as long as one runs; so every send
\* completes and the launched goroutines, which start together and do not
\* restart, all finish, also after the handler has answered the first error.
C28_ReportingNeverBlocks ==
    /\ [](Cardinality(Launched(req.back)) <= ErrChanCap)
    /\ [](Len(errChan) + Cardinality(Running) <= ErrChanCap)
    /\ [](Running # {} => errClosed = 0)
    /\ (Running # {}) ~> (Running = {})

\* The handler has answered the first error, and a second goroutine has sent its
\* error after that and finished.
C28_Witness ==
    /\ pc = "done"
    /\ Failed
    /\ Running = {}
    /\ Launched(req.back) = UNITS
    /\ Len(errChan) >= 2
    /\ \E u \in UNITS : uerr[u] = ErrTxDone

\* The places where the job of image j is: waiting in jobs, with a worker, or
\* answered in results.
JobPlaces(j) ==
    Cardinality({k \in DOMAIN pool.jobs : pool.jobs[k] = j})
    + Cardinality({w \in DOMAIN pool.wk :
                     pool.wk[w].st = "busy" /\ pool.wk[w].job = j})
    + Cardinality({k \in DOMAIN pool.results : pool.results[k].index = j})

Copies(j) == Cardinality({url \in DOMAIN blobs : blobs[url] = j})

\* C29. Exactly-once job processing: the job of every image is at one place at a
\* time, so it is taken by one worker and gives one result; an image is stored
\* at most once; and when the pool returns, every image that passes validation
\* has been uploaded, exactly once unless its upload call failed, whatever
\* happened to the other images, and no other image has been uploaded.
C29_ExactlyOnce ==
    pool.phase \in {"wait", "done"} =>
        \A j \in 0..(NumFiles - 1) :
            /\ JobPlaces(j) = 1
            /\ Copies(j) <= 1
            /\ pool.phase = "done" =>
                  \E k \in DOMAIN pool.results :
                      /\ pool.results[k].index = j
                      /\ IF ValidateImageFile(req.back.Images[j + 1]) # NoErr
                         THEN /\ pool.results[k].err =
                                   ValidateImageFile(req.back.Images[j + 1])
                              /\ Copies(j) = 0
                         ELSE \/ /\ pool.results[k].err = NoErr
                                 /\ Copies(j) = 1
                                 /\ blobs[pool.results[k].url] = j
                              \/ /\ pool.results[k].err.msg = "failed to upload image: %v"
                                 /\ Copies(j) = 0

\* An image was stored after another image of the request had already failed.
C29_Witness ==
    /\ pool.phase = "done"
    /\ NumFiles >= 3
    /\ pool.results[1].err # NoErr
    /\ pool.results[NumFiles].err = NoErr
    /\ pool.results[NumFiles].index > pool.results[1].index

\* C30. No send on a closed channel: errChan is closed once, by the goroutine
\* that waits for the group, when no launched goroutine is left running, and
\* results is closed once, when every worker has exited; nothing is sent on
\* either after its close; with no goroutine launched the close waits for
\* nothing.
C30_NoSendOnClosed ==
    /\ [](errClosed <= 1 /\ pool.resultsClosed <= 1)
    /\ [](pool.resultsClosed = 1 => \A w \in DOMAIN pool.wk : Exited(w))
    /\ [][errClosed' # errClosed =>
            /\ errClosed = 0
            /\ closer = "waiting" /\ closer' = "done"
            /\ Running = {}]_vars
    /\ [][Len(errChan') > Len(errChan) => errClosed = 0]_vars
    /\ [][(pool'.phase # "off" /\ Len(pool'.results) > Len(pool.results))
            => pool.resultsClosed = 0]_vars
    /\ []((Launched(req.back) = {} /\ pc = "wait") =>
            /\ Running = {}
            /\ errChan = <<>>
            /\ closer = "waiting" \/ errClosed = 1)

\* A run without goroutines closed errChan and committed.
C30_Witness ==
    /\ Launched(req.back) = {}
    /\ errClosed = 1
    /\ tx.status = "committed"
====
